---- MODULE Spec2Model ----
(***************************************************************************)
(* CadiDAQ, src/main.cpp: programming a parsed register configuration into *)
(* CAEN digitizers and reading it back.                                     *)
(*                                                                          *)
(* read_ini_file walks the digitizer sections of the configuration in      *)
(* order; per section it opens the device, parses the register settings,   *)
(* runs programSettings in direction WRITING, reports the unknown keys,    *)
(* runs programSettings in direction READING and stores the record; after  *)
(* the last section it serializes all stored records.                      *)
(*                                                                          *)
(* The program is single-threaded, so the model has one program counter.   *)
(* One action is one call of read_ini_file's body: the open, each of the   *)
(* two field calls of programSettings, the unknown-key report, the         *)
(* push_back, the serialization.                                           *)
(***************************************************************************)
EXTENDS Integers, Sequences, FiniteSets, TLC

\* ------------------------------------------------------------------ bounds

\* Largest number of digitizer sections in the configuration file.
MaxDev == 2
\* Scalar register values range over 0..MaxVal.
MaxVal == 1
\* Channels per group of the grouped device model.
ChPerGroup == 2

Values == 0..MaxVal

RECURSIVE Pow2(_)
Pow2(n) == IF n = 0 THEN 1 ELSE 2 * Pow2(n - 1)

\* ------------------------------------------------------------ data model

\* enum class comDirection {READING, WRITING}
comDirection == {"READING", "WRITING"}

\* boost::optional<T>: either unset or holding a value.  The val of an
\* unset optional is a fixed filler that no definition reads.
Unset == [set |-> FALSE, val |-> 0]
Some(v) == [set |-> TRUE, val |-> v]
UnsetB == [set |-> FALSE, val |-> FALSE]
SomeB(b) == [set |-> TRUE, val |-> b]

OptValues == {Unset} \cup {Some(v) : v \in Values}
OptBools == {UnsetB, SomeB(TRUE), SomeB(FALSE)}

\* cadidaq::registerSettings(name, nchannels) as far as programSettings
\* uses it: the scalar optional swTriggerMode and the per-channel vector
\* chEnable, of the device's channel count, as parsed from the section.
RegisterSettings(nchannels) ==
  [swTriggerMode : OptValues,
   chEnable : [0..(nchannels - 1) -> OptBools]]

\* No record: the value of the loop-local regsettings outside a section.
NullSettings == [swTriggerMode |-> Unset, chEnable |-> <<>>]

\* The accessor pairs of caen::Digitizer that main.cpp names.
Accessors == {"SWTriggerMode", "ChannelEnableMask", "GroupEnableMask"}

\* The device models: one without grouping (groups = 1) and one with two
\* groups of ChPerGroup channels.
Models ==
  { [channels |-> ChPerGroup, groups |-> 1],
    [channels |-> 2 * ChPerGroup, groups |-> 2] }

\* A connected caen::Digitizer: its capability facts and the registers
\* behind the accessor pairs.  The registers hold whatever the hardware held
\* when it was opened: the lowest or the highest trigger mode, all channels
\* enabled, no group enabled.
Digitizers ==
  { [channels |-> m.channels, groups |-> m.groups,
     regs |-> [SWTriggerMode |-> s,
               ChannelEnableMask |-> Pow2(m.channels) - 1,
               GroupEnableMask |-> 0]] :
      m \in Models, s \in {0, MaxVal} }

\* digitizer = nullptr
NullDigitizer ==
  [channels |-> 0, groups |-> 0,
   regs |-> [SWTriggerMode |-> 0, ChannelEnableMask |-> 0,
             GroupEnableMask |-> 0]]

\* --------------------------------------------------------- device boundary

\* A setter that succeeds stores the value in the register of its pair; a
\* getter that succeeds returns it.
DeviceSet(regs, acc, v) == [regs EXCEPT ![acc] = v]
DeviceGet(regs, acc) == regs[acc]

\* ------------------------------------------------------ helper.hpp (masks)

\* Channels per mask bit for group count G: G = 1 is full channel
\* granularity, otherwise the channels are split evenly over G groups.
GroupSize(n, G) == IF G = 1 THEN 1 ELSE n \div G

RECURSIVE MaskBits(_, _, _, _)
\* Sum of the bits g..(nbits-1) whose group has a channel set and true.
MaskBits(vec, size, g, nbits) ==
  IF g >= nbits THEN 0
  ELSE (IF \E i \in DOMAIN vec :
             i \div size = g /\ vec[i].set /\ vec[i].val
        THEN Pow2(g) ELSE 0)
       + MaskBits(vec, size, g + 1, nbits)

\* vec2Mask(vec, groups): bit (i / group size) is set for every channel i
\* that is set and true.  The mask is a uint32_t; the channel counts of the
\* model stay below 32, so no bit is lost.
vec2Mask(vec, G) ==
  LET n == Cardinality(DOMAIN vec)
      size == GroupSize(n, G)
  IN  IF n = 0 THEN 0 ELSE MaskBits(vec, size, 0, n \div size)

\* mask2Vec(mask, vec, groups): every channel becomes set, to the bit of
\* its group.
mask2Vec(mask, vec, G) ==
  LET n == Cardinality(DOMAIN vec)
      size == GroupSize(n, G)
  IN  [i \in DOMAIN vec |-> SomeB((mask \div Pow2(i \div size)) % 2 = 1)]

\* ------------------------------------------------------- main.cpp wrappers

\* programWrapper whose READING branch calls the getter and drops the result.
programWrapper_noassign(instance, acc, value, direction, fail) ==
  IF direction = "WRITING"
  THEN [instance |-> IF fail THEN instance
                     ELSE [instance EXCEPT
                             !.regs = DeviceSet(@, acc, value)],
        value |-> value,
        calls |-> <<[acc |-> acc, kind |-> "set", arg |-> value,
                     ok |-> ~fail]>>,
        err |-> fail]
  ELSE [instance |-> instance,
        value |-> value,
        calls |-> <<[acc |-> acc, kind |-> "get", arg |-> 0,
                     ok |-> ~fail]>>,
        err |-> fail]

\* programWrapper<T>(instance, write, read, T& value, direction).
\* acc names the accessor pair (write, read); fail is whether the accessor
\* call throws caen::Error.  The result is the device, the caller's value,
\* the accessor calls made (a setter's with its argument, which the catch
\* block logs) and whether the catch block logged the error.
programWrapper(instance, acc, value, direction, fail) ==
  IF direction = "WRITING"
  THEN [instance |-> IF fail THEN instance
                     ELSE [instance EXCEPT
                             !.regs = DeviceSet(@, acc, value)],
        value |-> value,
        calls |-> <<[acc |-> acc, kind |-> "set", arg |-> value,
                     ok |-> ~fail]>>,
        err |-> fail]
  ELSE [instance |-> instance,
        value |-> IF fail THEN value ELSE DeviceGet(instance.regs, acc),
        calls |-> <<[acc |-> acc, kind |-> "get", arg |-> 0,
                     ok |-> ~fail]>>,
        err |-> fail]

\* The optional overload without its is-set test: an unset optional is
\* written too, with whatever it holds.
programWrapperOpt_always(instance, acc, value, direction, fail, k) ==
  LET r == programWrapper(instance, acc,
                          IF value.set THEN value.val ELSE k,
                          direction, fail)
  IN  [instance |-> r.instance,
       value |-> IF value.set \/ direction = "READING"
                 THEN Some(r.value) ELSE value,
       calls |-> r.calls, err |-> r.err]

\* The optional overload without `value = k`: the value read into the
\* local never reaches an unset optional.
programWrapperOpt_nostore(instance, acc, value, direction, fail, k) ==
  IF value.set
  THEN LET r == programWrapper(instance, acc, value.val, direction, fail)
       IN  [instance |-> r.instance, value |-> Some(r.value),
            calls |-> r.calls, err |-> r.err]
  ELSE IF direction = "READING"
  THEN LET r == programWrapper(instance, acc, k, direction, fail)
       IN  [instance |-> r.instance, value |-> value,
            calls |-> r.calls, err |-> r.err]
  ELSE [instance |-> instance, value |-> value, calls |-> <<>>,
        err |-> FALSE]

\* programWrapper<T>(instance, write, read, boost::optional<T>& value,
\* direction).  k is the content of the uninitialized local `T k`.
programWrapperOpt(instance, acc, value, direction, fail, k) ==
  IF value.set
  THEN LET r == programWrapper(instance, acc, value.val, direction, fail)
       IN  [instance |-> r.instance, value |-> Some(r.value),
            calls |-> r.calls, err |-> r.err]
  ELSE IF direction = "READING"
  THEN LET r == programWrapper(instance, acc, k, direction, fail)
       IN  [instance |-> r.instance, value |-> Some(r.value),
            calls |-> r.calls, err |-> r.err]
  ELSE [instance |-> instance, value |-> value, calls |-> <<>>,
        err |-> FALSE]

\* programMaskWrapper that rejects a vector it warns about: the setter is
\* not called after the warning.
programMaskWrapper_reject(digitizer, acc, vec, direction, fail) ==
  LET mask == IF direction = "WRITING"
              THEN vec2Mask(vec, digitizer.groups) ELSE 0
      warn == mask # vec2Mask(vec, 1)
      r == programWrapper(digitizer, "ChannelEnableMask", mask,
                          direction, fail)
  IN  IF warn /\ direction = "WRITING"
      THEN [instance |-> digitizer, vec |-> vec, calls |-> <<>>,
            err |-> FALSE, warn |-> warn]
      ELSE [instance |-> r.instance,
            vec |-> IF direction = "READING"
                    THEN mask2Vec(r.value, vec, digitizer.groups) ELSE vec,
            calls |-> r.calls, err |-> r.err, warn |-> warn]

\* programMaskWrapper that never derives the mask: it sends the initial 0.
programMaskWrapper_nomask(digitizer, acc, vec, direction, fail) ==
  LET mask == 0
      warn == mask # vec2Mask(vec, 1)
      r == programWrapper(digitizer, "ChannelEnableMask", mask,
                          direction, fail)
  IN  [instance |-> r.instance,
       vec |-> IF direction = "READING"
               THEN mask2Vec(r.value, vec, digitizer.groups) ELSE vec,
       calls |-> r.calls, err |-> r.err, warn |-> warn]

\* programMaskWrapper without the direction test before mask2Vec: the
\* vector is rewritten from the mask after a WRITING call too.
programMaskWrapper_expand(digitizer, acc, vec, direction, fail) ==
  LET mask == IF direction = "WRITING"
              THEN vec2Mask(vec, digitizer.groups) ELSE 0
      warn == mask # vec2Mask(vec, 1)
      r == programWrapper(digitizer, "ChannelEnableMask", mask,
                          direction, fail)
  IN  [instance |-> r.instance,
       vec |-> mask2Vec(r.value, vec, digitizer.groups),
       calls |-> r.calls, err |-> r.err, warn |-> warn]

\* programMaskWrapper(digitizer, write, read, vec, name, direction).
\* acc is the accessor pair the caller passes as (write, read); the body
\* calls programWrapper with the channel-enable pair.
programMaskWrapper(digitizer, acc, vec, direction, fail) ==
  LET mask == IF direction = "WRITING"
              THEN vec2Mask(vec, digitizer.groups) ELSE 0
      warn == mask # vec2Mask(vec, 1)
      r == programWrapper(digitizer, "ChannelEnableMask", mask,
                          direction, fail)
  IN  [instance |-> r.instance,
       vec |-> IF direction = "READING"
               THEN mask2Vec(r.value, vec, digitizer.groups) ELSE vec,
       calls |-> r.calls, err |-> r.err, warn |-> warn]

\* The accessor pair programSettings passes to programMaskWrapper.
MaskAccessor(digitizer) ==
  IF digitizer.groups = 1 THEN "ChannelEnableMask" ELSE "GroupEnableMask"

\* ------------------------------------------------------------------- state

VARIABLES
  nDev,           \* NDigitizer: the digitizer sections of the file
  idx,            \* the section the loop is at, 1..nDev
  pc,             \* position in read_ini_file
  direction,      \* direction of the programSettings call in progress
  digitizer,      \* the loop-local device handle
  regsettings,    \* the loop-local settings record
  before,         \* swTriggerMode as the current programSettings call got it
  calls,          \* accessor calls of the current programSettings call
  errs,           \* fields the current call logged a caught error for
  warns,          \* mask warnings logged by the current call
  passes,         \* per section: programSettings calls started/returned
  opened,         \* per section: how caen::Digitizer::open ended
  vecRegSettings, \* the records stored for serialization
  output          \* the sections written to output.ini, once written

vars == <<nDev, idx, pc, direction, digitizer, regsettings, before, calls,
          errs, warns, passes, opened, vecRegSettings, output>>

Sections == 1..MaxDev
NoPasses == [startW |-> 0, doneW |-> 0, startR |-> 0, doneR |-> 0]
\* output.ini before and after write_ini.
NotWritten == [written |-> FALSE, records |-> <<>>]
Written(records) == [written |-> TRUE, records |-> records]

AllSet(s) ==
  s.swTriggerMode.set /\ \A i \in DOMAIN s.chEnable : s.chEnable[i].set

Init ==
  /\ nDev \in 0..MaxDev
  /\ idx = 1
  /\ pc = IF nDev = 0 THEN "serialize" ELSE "section"
  /\ direction = "WRITING"
  /\ digitizer = NullDigitizer
  /\ regsettings = NullSettings
  /\ before = Unset
  /\ calls = <<>>
  /\ errs = <<>>
  /\ warns = 0
  /\ passes = [d \in Sections |-> NoPasses]
  /\ opened = [d \in Sections |-> "no"]
  /\ vecRegSettings = <<>>
  /\ output = NotWritten

\* ----------------------------------------------------------------- actions

\* A failed open that is logged and skipped: the loop goes on to the next
\* section.
OpenFail_skip ==
  /\ pc = "section"
  /\ opened' = [opened EXCEPT ![idx] = "failed"]
  /\ idx' = idx + 1
  /\ pc' = IF idx = nDev THEN "serialize" ELSE "section"
  /\ UNCHANGED <<nDev, direction, digitizer, regsettings, before, calls,
                 errs, warns, passes, vecRegSettings, output>>

\* caen::Digitizer::open throws: the catch block logs and exits.
OpenFail ==
  /\ pc = "section"
  /\ opened' = [opened EXCEPT ![idx] = "failed"]
  /\ pc' = "exited"
  /\ UNCHANGED <<nDev, idx, direction, digitizer, regsettings, before, calls,
                 errs, warns, passes, vecRegSettings, output>>

\* The device opens; the register settings of the section are parsed into a
\* record sized to the device's channels; programSettings(WRITING) is next.
OpenAndParse ==
  /\ pc = "section"
  /\ \E d \in Digitizers :
       \E s \in RegisterSettings(d.channels) :
         /\ digitizer' = d
         /\ regsettings' = s
  /\ opened' = [opened EXCEPT ![idx] = "yes"]
  /\ direction' = "WRITING"
  /\ pc' = "sw"
  /\ UNCHANGED <<nDev, idx, before, calls, errs, warns, passes,
                 vecRegSettings, output>>

Tag(cs, field) ==
  [i \in 1..Len(cs) |->
     [dev |-> idx, field |-> field, acc |-> cs[i].acc, kind |-> cs[i].kind,
      arg |-> cs[i].arg, ok |-> cs[i].ok]]

\* programSettings whose first call lets a device error end the pass: the
\* mask is not programmed after a failure.
ProgramSwTriggerMode_abort ==
  /\ pc = "sw"
  /\ \E fail \in BOOLEAN, k \in Values :
       LET r == programWrapperOpt(digitizer, "SWTriggerMode",
                                  regsettings.swTriggerMode, direction,
                                  fail, k)
       IN  /\ digitizer' = r.instance
           /\ regsettings' = [regsettings EXCEPT !.swTriggerMode = r.value]
           /\ calls' = Tag(r.calls, "swTriggerMode")
           /\ errs' = IF r.err THEN <<"swTriggerMode">> ELSE <<>>
           /\ pc' = IF r.err THEN "passdone" ELSE "mask"
           /\ passes' =
                [passes EXCEPT
                   ![idx] = IF direction = "WRITING"
                            THEN [@ EXCEPT !.startW = @ + 1,
                                           !.doneW = IF r.err THEN @ + 1
                                                     ELSE @]
                            ELSE [@ EXCEPT !.startR = @ + 1,
                                           !.doneR = IF r.err THEN @ + 1
                                                     ELSE @]]
  /\ before' = regsettings.swTriggerMode
  /\ warns' = 0
  /\ UNCHANGED <<nDev, idx, direction, opened, vecRegSettings, output>>

\* programSettings, first call: programWrapper on settings->swTriggerMode.
ProgramSwTriggerMode ==
  /\ pc = "sw"
  /\ \E fail \in BOOLEAN, k \in Values :
       LET r == programWrapperOpt(digitizer, "SWTriggerMode",
                                  regsettings.swTriggerMode, direction,
                                  fail, k)
       IN  /\ digitizer' = r.instance
           /\ regsettings' = [regsettings EXCEPT !.swTriggerMode = r.value]
           /\ calls' = Tag(r.calls, "swTriggerMode")
           /\ errs' = IF r.err THEN <<"swTriggerMode">> ELSE <<>>
  /\ before' = regsettings.swTriggerMode
  /\ warns' = 0
  /\ passes' = [passes EXCEPT
                  ![idx] = IF direction = "WRITING"
                           THEN [@ EXCEPT !.startW = @ + 1]
                           ELSE [@ EXCEPT !.startR = @ + 1]]
  /\ pc' = "mask"
  /\ UNCHANGED <<nDev, idx, direction, opened, vecRegSettings, output>>

\* programSettings, second call: programMaskWrapper on settings->chEnable
\* with the accessor pair chosen by digitizer->groups(); then it returns.
ProgramChEnable ==
  /\ pc = "mask"
  /\ \E fail \in BOOLEAN :
       LET r == programMaskWrapper(digitizer, MaskAccessor(digitizer),
                                   regsettings.chEnable, direction, fail)
       IN  /\ digitizer' = r.instance
           /\ regsettings' = [regsettings EXCEPT !.chEnable = r.vec]
           /\ calls' = calls \o Tag(r.calls, "chEnable")
           /\ errs' = IF r.err THEN Append(errs, "chEnable") ELSE errs
           /\ warns' = IF r.warn THEN warns + 1 ELSE warns
  /\ passes' = [passes EXCEPT
                  ![idx] = IF direction = "WRITING"
                           THEN [@ EXCEPT !.doneW = @ + 1]
                           ELSE [@ EXCEPT !.doneR = @ + 1]]
  /\ pc' = "passdone"
  /\ UNCHANGED <<nDev, idx, direction, before, opened, vecRegSettings,
                 output>>

\* The unknown-key report followed by a second WRITING call.
ReportUnknownKeys_rewrite ==
  /\ pc = "passdone"
  /\ direction = "WRITING"
  /\ passes[idx].startW < 2
  /\ direction' = "WRITING"
  /\ pc' = "sw"
  /\ UNCHANGED <<nDev, idx, digitizer, regsettings, before, calls, errs,
                 warns, passes, opened, vecRegSettings, output>>

\* After the WRITING call: the keys left in the section are reported, then
\* programSettings(READING) is called.
ReportUnknownKeys ==
  /\ pc = "passdone"
  /\ direction = "WRITING"
  /\ direction' = "READING"
  /\ pc' = "sw"
  /\ UNCHANGED <<nDev, idx, digitizer, regsettings, before, calls, errs,
                 warns, passes, opened, vecRegSettings, output>>

\* After the READING call: the record is stored and the loop moves on.  The
\* stored record is not touched again; the model keeps its name and whether
\* all of its optionals are set.
StoreSettings ==
  /\ pc = "passdone"
  /\ direction = "READING"
  /\ vecRegSettings' =
       Append(vecRegSettings, [name |-> idx, allSet |-> AllSet(regsettings)])
  /\ digitizer' = NullDigitizer
  /\ regsettings' = NullSettings
  /\ before' = Unset
  /\ calls' = <<>>
  /\ errs' = <<>>
  /\ warns' = 0
  /\ idx' = idx + 1
  /\ pc' = IF idx = nDev THEN "serialize" ELSE "section"
  /\ UNCHANGED <<nDev, direction, passes, opened, output>>

\* The stored records are written to output.ini.
Serialize ==
  /\ pc = "serialize"
  /\ output' = Written(vecRegSettings)
  /\ pc' = "done"
  /\ UNCHANGED <<nDev, idx, direction, digitizer, regsettings, before, calls,
                 errs, warns, passes, opened, vecRegSettings>>

Next ==
  \/ OpenFail
  \/ OpenAndParse
  \/ ProgramSwTriggerMode
  \/ ProgramChEnable
  \/ ReportUnknownKeys
  \/ StoreSettings
  \/ Serialize

Spec == Init /\ [][Next]_vars

\* read_ini_file is one sequential routine: it runs until it returns or
\* calls exit, so a step that can be taken is eventually taken.
SpecLive == Spec /\ WF_vars(Next)

\* -------------------------------------------------- one field, both ways

\* A single optional field driven directly: one WRITING call of the
\* optional programWrapper on a set field, then one READING call into a
\* fresh optional of the same field, on one open device.
InitUnit ==
  /\ nDev = 1
  /\ idx = 1
  /\ pc = "u_write"
  /\ direction = "WRITING"
  /\ digitizer \in Digitizers
  /\ regsettings \in {s \in RegisterSettings(digitizer.channels) :
                         s.swTriggerMode.set}
  /\ before = regsettings.swTriggerMode
  /\ calls = <<>>
  /\ errs = <<>>
  /\ warns = 0
  /\ passes = [d \in Sections |-> NoPasses]
  /\ opened = [d \in Sections |-> IF d = 1 THEN "yes" ELSE "no"]
  /\ vecRegSettings = <<>>
  /\ output = NotWritten

UnitWrite ==
  /\ pc = "u_write"
  /\ \E fail \in BOOLEAN, k \in Values :
       LET r == programWrapperOpt(digitizer, "SWTriggerMode",
                                  regsettings.swTriggerMode, "WRITING",
                                  fail, k)
       IN  /\ digitizer' = r.instance
           /\ regsettings' = [regsettings EXCEPT !.swTriggerMode = r.value]
           /\ calls' = Tag(r.calls, "swTriggerMode")
           /\ errs' = IF r.err THEN <<"swTriggerMode">> ELSE <<>>
  /\ direction' = "READING"
  /\ pc' = "u_read"
  /\ UNCHANGED <<nDev, idx, before, warns, passes, opened, vecRegSettings,
                 output>>

UnitRead ==
  /\ pc = "u_read"
  /\ \E fail \in BOOLEAN, k \in Values :
       LET r == programWrapperOpt(digitizer, "SWTriggerMode", Unset,
                                  "READING", fail, k)
       IN  /\ digitizer' = r.instance
           /\ regsettings' = [regsettings EXCEPT !.swTriggerMode = r.value]
           /\ calls' = calls \o Tag(r.calls, "swTriggerMode")
           /\ errs' = IF r.err THEN Append(errs, "swTriggerMode") ELSE errs
  /\ pc' = "u_done"
  /\ UNCHANGED <<nDev, idx, direction, before, warns, passes, opened,
                 vecRegSettings, output>>

NextUnit ==
  \/ UnitWrite
  \/ UnitRead

SpecUnit == InitUnit /\ [][NextUnit]_vars

\* ------------------------------------------------------------- properties

Fields == {"swTriggerMode", "chEnable"}

\* The calls of the current programSettings call that failed.
FailedCalls == {i \in 1..Len(calls) : ~calls[i].ok}

\* A programSettings call has returned.
PassReturned == pc = "passdone"

\* The accessor of `field` was invoked in the returned call, succeeded and
\* took effect: WRITING left the value in the register the call addressed,
\* READING left the register's content in the record.  (A scalar field that
\* is unset has no accessor call in a WRITING pass.)
FieldTookEffect(field) ==
  IF field = "swTriggerMode"
  THEN IF direction = "WRITING"
       THEN regsettings.swTriggerMode.set =>
              /\ \E i \in 1..Len(calls) :
                   /\ calls[i].field = field
                   /\ calls[i].kind = "set"
                   /\ calls[i].ok
              /\ digitizer.regs.SWTriggerMode = regsettings.swTriggerMode.val
       ELSE /\ \E i \in 1..Len(calls) :
                 /\ calls[i].field = field
                 /\ calls[i].kind = "get"
                 /\ calls[i].ok
            /\ regsettings.swTriggerMode = Some(digitizer.regs.SWTriggerMode)
  ELSE \E i \in 1..Len(calls) :
         /\ calls[i].field = field
         /\ calls[i].ok
         /\ IF direction = "WRITING"
            THEN /\ calls[i].kind = "set"
                 /\ digitizer.regs[calls[i].acc]
                      = vec2Mask(regsettings.chEnable, digitizer.groups)
            ELSE /\ calls[i].kind = "get"
                 /\ regsettings.chEnable
                      = mask2Vec(digitizer.regs[calls[i].acc],
                                 regsettings.chEnable, digitizer.groups)

\* C1: fault isolation.  A device error leaves the program inside the
\* configuration of its section, and once a programSettings call in which
\* exactly one accessor call failed has returned, an error is logged for the
\* field of that call and for no other, and the accessor of every other
\* field was invoked and took effect.
C1_FaultIsolation ==
  /\ errs # <<>> => pc \in {"sw", "mask", "passdone"}
  /\ (PassReturned /\ Cardinality(FailedCalls) = 1) =>
       LET f == calls[CHOOSE i \in FailedCalls : TRUE].field
       IN  /\ errs = <<f>>
           /\ \A g \in Fields \ {f} : FieldTookEffect(g)

C1_Witness ==
  /\ PassReturned
  /\ Cardinality(FailedCalls) = 1
  /\ Len(calls) = 2
  /\ calls[1].ok
  /\ direction = "READING"

\* C2: when the getter fails during READING of the optional field, the
\* field is as the call got it: a set field keeps its value and an unset
\* field is still unset.
C2_ReadFailureKeepsField ==
  (pc \in {"mask", "passdone"} /\ direction = "READING"
     /\ \E i \in 1..Len(errs) : errs[i] = "swTriggerMode")
  => regsettings.swTriggerMode = before

\* C3: when the mask getter fails during a READING call of
\* programMaskWrapper, chEnable is after the call as it was before it,
\* entry by entry.
C3_MaskReadFailureKeepsVector ==
  [][(pc = "mask" /\ direction = "READING" /\ Len(errs') > Len(errs))
       => regsettings'.chEnable = regsettings.chEnable]_vars

\* C4: the enable mask goes through the accessor pair the group count
\* selects: the channel-enable pair on a device with group count 1, the
\* group-enable pair otherwise, in both directions.
C4_AccessorByGroupCount ==
  \A i \in 1..Len(calls) :
    calls[i].field = "chEnable" =>
      calls[i].acc = IF digitizer.groups = 1 THEN "ChannelEnableMask"
                     ELSE "GroupEnableMask"

\* Position of a section in CONNECTED -> WRITTEN -> READ -> SERIALIZABLE.
Stored(d) == \E i \in 1..Len(vecRegSettings) : vecRegSettings[i].name = d
Lifecycle(d) ==
  IF Stored(d) THEN 4
  ELSE IF passes[d].doneR > 0 THEN 3
  ELSE IF passes[d].doneW > 0 THEN 2
  ELSE IF opened[d] = "yes" THEN 1
  ELSE 0

\* The accessor calls a step makes.
NewCalls ==
  IF pc = "sw" THEN calls'
  ELSE IF pc = "mask" THEN SubSeq(calls', Len(calls) + 1, Len(calls'))
  ELSE <<>>

\* C5: per device the lifecycle only moves forward.  Each pass starts at
\* most once, READING starts only after WRITING has returned, a stored or
\* serialized record has had exactly one WRITING and one READING pass, no
\* step moves a device backward, and no setter is called on a device whose
\* READING pass has started.
C5_LifecycleForward ==
  /\ [](\A d \in Sections :
          /\ passes[d].startW <= 1
          /\ passes[d].startR <= 1
          /\ passes[d].doneW <= passes[d].startW
          /\ passes[d].doneR <= passes[d].startR
          /\ passes[d].startR > 0 => passes[d].doneW = 1
          /\ Stored(d) => passes[d].doneW = 1 /\ passes[d].doneR = 1
          /\ (\E i \in 1..Len(output.records) :
                 output.records[i].name = d)
               => passes[d].doneR = 1)
  /\ [][/\ \A d \in Sections : Lifecycle(d)' >= Lifecycle(d)
        /\ \A i \in 1..Len(NewCalls) :
             NewCalls[i].kind = "set" => passes'[NewCalls[i].dev].startR = 0
       ]_vars

C5_Witness ==
  /\ pc = "done"
  /\ output.written
  /\ Len(output.records) = 2
  /\ \A d \in 1..2 : Lifecycle(d) = 4

\* C6: optional write/skip law.  In a WRITING pass over a record whose
\* optional field is unset, neither the setter nor the getter of that field
\* is invoked.
C6_UnsetNotWritten ==
  (pc \in {"mask", "passdone"} /\ direction = "WRITING"
     /\ ~before.set)
  => \A i \in 1..Len(calls) : calls[i].acc # "SWTriggerMode"

C6_Witness ==
  /\ PassReturned
  /\ direction = "WRITING"
  /\ ~before.set
  /\ Len(calls) = 1

On(vec, i) == vec[i].set /\ vec[i].val

\* The vector can be represented at the device's group granularity: the
\* channels of every group agree.
Representable(vec, dig) ==
  LET size == GroupSize(dig.channels, dig.groups)
  IN  \A i, j \in DOMAIN vec :
        i \div size = j \div size => (On(vec, i) <=> On(vec, j))

\* C8: a WRITING call of programMaskWrapper warns exactly when the vector
\* cannot be represented at the device's group granularity.
C8_WarnIffNotRepresentable ==
  (PassReturned /\ direction = "WRITING")
  => (warns > 0 <=> ~Representable(regsettings.chEnable, digitizer))

\* C9: direction symmetry.  WRITING a set field and then READING into a
\* fresh optional of the same field, with no device error, leaves that
\* optional set to the value written.
C9_RoundTrip ==
  (pc = "u_done" /\ errs = <<>>)
  => regsettings.swTriggerMode = before

C9_Witness ==
  /\ pc = "u_done"
  /\ errs = <<>>
  /\ Len(calls) = 2
  /\ calls[1].kind = "set"
  /\ calls[2].kind = "get"
  /\ before = Some(MaxVal)

\* C10: a failed open ends the program at once.  After it the program has
\* exited, no accessor of that device was called, no later section was
\* opened or programmed, nothing was serialized, and no step follows.
C10_OpenFailureExits ==
  /\ [](\A d \in Sections :
          opened[d] = "failed" =>
            /\ pc = "exited"
            /\ passes[d] = NoPasses
            /\ calls = <<>>
            /\ \A e \in Sections :
                 e > d => opened[e] = "no" /\ passes[e] = NoPasses
            /\ output = NotWritten)
  /\ [][pc # "exited"]_vars

C10_Witness ==
  /\ pc = "exited"
  /\ opened[2] = "failed"
  /\ Len(vecRegSettings) = 1

\* C11: at serialization handoff every optional of every record is set.
\* When a READING call of programSettings has returned, swTriggerMode and
\* every entry of chEnable hold a value, whether or not accessor calls
\* failed, and so does every record stored or written.
C11_AllSetAtHandoff ==
  /\ (PassReturned /\ direction = "READING") => AllSet(regsettings)
  /\ \A i \in 1..Len(vecRegSettings) : vecRegSettings[i].allSet
  /\ \A i \in 1..Len(output.records) : output.records[i].allSet

C11_Witness ==
  /\ PassReturned
  /\ direction = "READING"
  /\ ~before.set
  /\ Len(errs) = 2
  /\ AllSet(regsettings)

\* C14: a WRITING pass leaves the settings record unchanged.  No step of a
\* WRITING call of programSettings changes the is-set status or the value
\* of swTriggerMode or of an entry of chEnable, whether the setter succeeds
\* or fails.
C14_WritingKeepsRecord ==
  [][(direction = "WRITING" /\ pc \in {"sw", "mask"})
       => regsettings' = regsettings]_vars

C14_Witness ==
  /\ PassReturned
  /\ direction = "WRITING"
  /\ before.set
  /\ regsettings.swTriggerMode = before
  /\ Len(calls) = 2
  /\ calls[1].ok
  /\ ~calls[2].ok
  /\ \E i \in DOMAIN regsettings.chEnable : ~regsettings.chEnable[i].set

\* C15: the mask consistency check belongs to the WRITING path only: a
\* READING call of programMaskWrapper emits no mask warning, whatever the
\* vector holds on entry.
C15_NoWarningOnReading ==
  (PassReturned /\ direction = "READING") => warns = 0

\* C17: a WRITING pass over a record whose chEnable has every entry unset
\* does not invoke the enable-mask setter and leaves the device's registers
\* as they were.
C17_AllUnsetNotWritten ==
  [][(pc = "mask" /\ direction = "WRITING"
        /\ \A i \in DOMAIN regsettings.chEnable : ~regsettings.chEnable[i].set)
       => (NewCalls = <<>> /\ digitizer'.regs = digitizer.regs)]_vars

\* Bit b of a mask.
Bit(mask, b) == (mask \div Pow2(b)) % 2 = 1

\* Some channel of group g of the device is set and true.
GroupOr(vec, dig, g) ==
  \E i \in DOMAIN vec : i \div (dig.channels \div dig.groups) = g /\ On(vec, i)

\* The vector with exactly the channels of `on` set true and no other
\* channel set.
Enabled(n, on) ==
  [i \in 0..(n - 1) |-> IF i \in on THEN SomeB(TRUE) ELSE UnsetB]

\* C12: mask collapse law.  On a device with more than one group and a
\* vector in which channels of one group disagree, the WRITING call invokes
\* the setter, warning or not, with the mask whose bit g is the OR of the
\* set-and-true channels of group g (channels {0,5} of 8 in 2 groups give
\* 0b11); and a READING call that reads that mask back sets every channel
\* to the OR of its group.
C12_MaskCollapse ==
  [][/\ vec2Mask(Enabled(8, {0, 5}), 2) = 3
     /\ (pc = "mask" /\ digitizer.groups > 1
           /\ ~Representable(regsettings.chEnable, digitizer))
        => LET vec == regsettings.chEnable
               size == digitizer.channels \div digitizer.groups
               groups == 0..(digitizer.groups - 1)
           IN  /\ Len(NewCalls) = 1
               /\ direction = "WRITING" =>
                    /\ NewCalls[1].kind = "set"
                    /\ NewCalls[1].arg < Pow2(digitizer.groups)
                    /\ \A g \in groups :
                         Bit(NewCalls[1].arg, g) <=> GroupOr(vec, digitizer, g)
                    /\ NewCalls[1].ok =>
                         digitizer'.regs[NewCalls[1].acc] = NewCalls[1].arg
               /\ (/\ direction = "READING"
                   /\ NewCalls[1].ok
                   /\ \A g \in groups :
                        Bit(digitizer.regs[NewCalls[1].acc], g)
                          <=> GroupOr(vec, digitizer, g))
                  => \A i \in DOMAIN vec :
                       regsettings'.chEnable[i]
                         = SomeB(GroupOr(vec, digitizer, i \div size))
    ]_vars

C12_Witness ==
  /\ PassReturned
  /\ direction = "WRITING"
  /\ digitizer.groups = 2
  /\ regsettings.chEnable = Enabled(digitizer.channels, {0, ChPerGroup + 1})
  /\ warns = 1
  /\ Len(calls) = 1
  /\ calls[1].ok
  /\ calls[1].arg = 3
  /\ digitizer.regs[calls[1].acc] = 3

\* C13: mask inverse law.  On a device without grouping and a vector whose
\* entries are all set, the WRITING call sends the mask whose bit i is set
\* exactly when channel i is true (channels {0,2,4} of 8 give 0b00010101);
\* and a READING call that reads that mask back leaves the vector equal to
\* the original.
C13_MaskInverse ==
  [][/\ vec2Mask([i \in 0..7 |-> SomeB(i \in {0, 2, 4})], 1) = 21
     /\ mask2Vec(21, [i \in 0..7 |-> UnsetB], 1)
          = [i \in 0..7 |-> SomeB(i \in {0, 2, 4})]
     /\ (pc = "mask" /\ digitizer.groups = 1
           /\ \A i \in DOMAIN regsettings.chEnable :
                regsettings.chEnable[i].set)
        => LET vec == regsettings.chEnable
           IN  /\ Len(NewCalls) = 1
               /\ direction = "WRITING" =>
                    /\ NewCalls[1].kind = "set"
                    /\ NewCalls[1].arg < Pow2(digitizer.channels)
                    /\ \A i \in DOMAIN vec :
                         Bit(NewCalls[1].arg, i) <=> vec[i].val
                    /\ NewCalls[1].ok =>
                         digitizer'.regs[NewCalls[1].acc] = NewCalls[1].arg
               /\ (/\ direction = "READING"
                   /\ NewCalls[1].ok
                   /\ \A i \in DOMAIN vec :
                        Bit(digitizer.regs[NewCalls[1].acc], i) <=> vec[i].val)
                  => regsettings'.chEnable = vec
    ]_vars

C13_Witness ==
  /\ PassReturned
  /\ direction = "WRITING"
  /\ digitizer.groups = 1
  /\ regsettings.chEnable
       = [i \in 0..(digitizer.channels - 1) |-> SomeB(i = 0)]
  /\ warns = 0
  /\ Len(calls) = 1
  /\ calls[1].ok
  /\ calls[1].arg = 1
  /\ digitizer.regs[calls[1].acc] = 1

\* A setter of the device being programmed was called and succeeded.
RegisterWritten ==
  \E i \in 1..Len(calls) : calls[i].kind = "set" /\ calls[i].ok

\* C16 as stated: once a register of some device has been written, the
\* process never terminates on a connection failure.
C16_AllOrNothing == [](RegisterWritten => [](pc # "exited"))

\* C16, amended: a connection failure terminates the process before any
\* pass over the failing device or a later one has begun, while every
\* device before it in the configuration source has by then been opened,
\* written, read back and stored.
C16_FailureStopsLaterDevices ==
  \A d \in Sections :
    opened[d] = "failed" =>
      /\ pc = "exited"
      /\ \A e \in Sections :
           /\ e >= d => passes[e].startW = 0 /\ passes[e].startR = 0
           /\ e < d =>
                /\ opened[e] = "yes"
                /\ passes[e].doneW = 1
                /\ passes[e].doneR = 1
                /\ Stored(e)

C16_Witness ==
  /\ pc = "exited"
  /\ opened[1] = "yes"
  /\ opened[2] = "failed"
  /\ passes[1].doneW = 1
  /\ passes[1].doneR = 1
  /\ passes[2] = NoPasses
  /\ Stored(1)

====
